---- MODULE Spec2Model ----
(***************************************************************************)
(* Model of scripts/mcp-client-example.py: the CouncilMcpClient object     *)
(* (request_id counter, socket, send_request and its wrappers, close), the *)
(* TCP stream it talks over, and the main() demo sequence.                 *)
(*                                                                         *)
(* The byte stream is a sequence of tokens.  One JSON object on the wire   *)
(* is  "{" member* "}"  and a line ends with a newline token.  recv() may  *)
(* return any non-empty prefix of what the peer has sent.                  *)
(***************************************************************************)
EXTENDS Integers, Sequences, FiniteSets, TLC

VARIABLES
    host,         \* self.host
    port,         \* self.port
    request_id,   \* self.request_id
    sock,         \* identity of the socket object in self.sock (0: no attribute yet)
    sockState,    \* state of that socket object
    wire,         \* what sock.send put on the transport, one entry per send
    inbuf,        \* bytes sent by the peer on the current connection, not yet read
    peerClosed,   \* the peer has closed its end of the current connection
    cur,          \* the send_request invocation in progress, or the last one
    issued,       \* ids placed in the request objects built so far, in call order
    pc,           \* position of the caller (main(), or "api" for a free caller)
    session_id,   \* main()'s local session_id
    exitStatus,   \* exit status of the process ("running" until it ends)
    stdout,       \* diagnostics printed so far
    caught,       \* number of times main()'s except clause ran
    closeCount,   \* number of close() calls that reached sock.close()
    lastClose,    \* how the last close() call ended
    lastConnect   \* what sock.connect did in the last connect() call

\* the caller of the client
callerVars == <<pc, session_id, exitStatus, caught>>

vars == <<host, port, request_id, sock, sockState, wire, inbuf, peerClosed, cur, issued,
          pc, session_id, exitStatus, stdout, caught, closeCount, lastClose,
          lastConnect>>

(***************************************************************************)
(* Bounds of the model.                                                    *)
(***************************************************************************)
MaxCalls == 2       \* send_request invocations of a free caller
MaxConnects == 2    \* connect() invocations of a free caller
MaxCloses == 2      \* close() invocations of a free caller
MaxInbuf == 6       \* unread tokens the peer may have in flight

RecvBufSize == 4096 \* sock.recv(4096)

Min(a, b) == IF a < b THEN a ELSE b

(***************************************************************************)
(* Wire tokens.                                                            *)
(***************************************************************************)
Tok(k, n, s) == [k |-> k, n |-> n, s |-> s]
LBrace == Tok("{", 0, "")
RBrace == Tok("}", 0, "")
NL == Tok("newline", 0, "")
MemberKeys == {"jsonrpc", "id", "method", "params", "result", "error"}

(***************************************************************************)
(* send_request, lines 32-40: the request dict and json.dumps(request)+"\n" *)
(***************************************************************************)
Methods == {"tools/list", "council/ask", "council/get_session", "council/list_sessions"}
\* params values: None, the empty dict, and the two dicts the wrappers build
ParamValues == {"None", "{}", "{question,wait_for_consensus}", "{session_id}"}
\* mutant: the test is  params is not None
MutTruthy(params) == params # "None"

Truthy(params) == params \notin {"None", "{}"}

BuildRequest(id, method, params) ==
    [jsonrpc |-> "2.0", id |-> id, method |-> method,
     params |-> IF Truthy(params) THEN params ELSE "absent"]

Dumps(request) ==
    <<LBrace, Tok("jsonrpc", 0, request.jsonrpc), Tok("id", request.id, ""),
      Tok("method", 0, request.method)>>
    \o (IF request.params # "absent" THEN <<Tok("params", 0, request.params)>> ELSE <<>>)
    \o <<RBrace>>

EncodeRequest(request) == Dumps(request) \o <<NL>>

(***************************************************************************)
(* send_request, lines 47-48: response_data.strip() and json.loads.        *)
(***************************************************************************)
RECURSIVE LStrip(_)
LStrip(s) == IF s # <<>> /\ Head(s) = NL THEN LStrip(Tail(s)) ELSE s

RECURSIVE RStrip(_)
RStrip(s) == IF s # <<>> /\ s[Len(s)] = NL THEN RStrip(SubSeq(s, 1, Len(s) - 1)) ELSE s

Strip(s) == RStrip(LStrip(s))

\* json.loads accepts the text: exactly one object, nothing before or after it
IsJsonText(s) ==
    /\ Len(s) >= 2
    /\ s[1] = LBrace
    /\ s[Len(s)] = RBrace
    /\ \A i \in 2..(Len(s) - 1) : s[i].k \in MemberKeys

\* the last member with key k (a repeated key keeps its last value)
LastMember(s, k) ==
    LET idx == {i \in 2..(Len(s) - 1) : s[i].k = k}
    IN  s[CHOOSE i \in idx : \A j \in idx : j <= i]

\* mutant: the id is read from the first member, whatever its key
MutLoads(s) ==
    LET keys == {s[i].k : i \in 2..(Len(s) - 1)}
    IN  [keys |-> keys,
         id |-> IF "id" \in keys THEN s[2].n ELSE 0,
         result |-> IF "result" \in keys THEN LastMember(s, "result").s ELSE ""]

\* the dict json.loads returns: the keys present, and the values the caller reads
Loads(s) ==
    LET keys == {s[i].k : i \in 2..(Len(s) - 1)}
    IN  [keys |-> keys,
         id |-> IF "id" \in keys THEN LastMember(s, "id").n ELSE 0,
         result |-> IF "result" \in keys THEN LastMember(s, "result").s ELSE ""]

NoResponse == [keys |-> {}, id |-> 0, result |-> ""]

(***************************************************************************)
(* Replies the peer may put on the stream.  A body is the value of the     *)
(* reply's result member, or "error" for an error member, or "none" for a  *)
(* reply with neither.                                                     *)
(*   tools          {"tools": [{"name": .., "description": ..}]}           *)
(*   tools_bad      {"tools": [{}]}                                        *)
(*   ask            {"session_id": "s1", "status": "pending"}              *)
(*   ask_nostatus   {"session_id": "s1"}                                   *)
(*   ask_emptysid   {"session_id": "", "status": "pending"}                *)
(*   session        {"id", "question", "status", "responses", "consensus"} *)
(*   sessions       [ {"id", "question", "status", "responses"} ]          *)
(***************************************************************************)
ResultBodies == {"tools", "tools_bad", "ask", "ask_nostatus", "ask_emptysid",
                 "session", "sessions"}
Bodies == ResultBodies \cup {"error", "none"}

\* one reply line; id 0 stands for a reply without an id member
EncodeReply(hasJsonrpc, id, body) ==
    <<LBrace>>
    \o (IF hasJsonrpc THEN <<Tok("jsonrpc", 0, "2.0")>> ELSE <<>>)
    \o (IF id # 0 THEN <<Tok("id", id, "")>> ELSE <<>>)
    \o (CASE body = "none" -> <<>>
          [] body = "error" -> <<Tok("error", 0, "")>>
          [] OTHER -> <<Tok("result", 0, body)>>)
    \o <<RBrace, NL>>

(***************************************************************************)
(* State after  client = CouncilMcpClient()  (lines 13-16).  cur describes *)
(* one send_request invocation: the id and method of its request, how many *)
(* sends and recvs of it have returned, how it ended and what it returned, *)
(* and what held when it started (counter, socket state, peer closed,      *)
(* previous call returned an error reply).                                 *)
(***************************************************************************)
NoCall == [phase |-> "none", id |-> 0, method |-> "", writes |-> 0, reads |-> 0,
           outcome |-> "", resp |-> NoResponse, ctr0 |-> 0, st0 |-> "absent",
           peer0 |-> FALSE, prevErr |-> FALSE]

ClientInit ==
    /\ host = "localhost"
    /\ port = 9001
    /\ request_id = 0
    /\ sock = 0
    /\ sockState = "absent"
    /\ wire = <<>>
    /\ inbuf = <<>>
    /\ peerClosed = FALSE
    /\ cur = NoCall
    /\ issued = <<>>
    /\ session_id = "unset"
    /\ exitStatus = "running"
    /\ stdout = {}
    /\ caught = 0
    /\ closeCount = 0
    /\ lastClose = "none"
    /\ lastConnect = "none"

(***************************************************************************)
(* connect(), lines 18-27.  outcome is what sock.connect does: "ok",       *)
(* "refused" (ConnectionRefusedError) or "error" (any other exception,     *)
(* which connect() lets through).  A socket object the client held before  *)
(* is dropped and thereby closed; the new one has a stream of its own.     *)
(***************************************************************************)
ConnectOutcomes == {"ok", "refused", "error"}

\* connect() does not touch the counter
RequestIdAfterConnect == request_id

\* mutant: the handler of ConnectionRefusedError prints and returns
MutSysExit(outcome) == FALSE

\* lines 24-27: the handler of ConnectionRefusedError ends in sys.exit(1)
SysExit(outcome) == outcome = "refused"

Connect(outcome) ==
    /\ sock' = sock + 1
    /\ sockState' = IF outcome = "ok" THEN "connected" ELSE "unconnected"
    /\ inbuf' = <<>>
    /\ peerClosed' = FALSE
    /\ request_id' = RequestIdAfterConnect
    /\ lastConnect' = outcome
    /\ stdout' = stdout \cup (CASE outcome = "ok" -> {"connected"}
                                [] outcome = "refused" -> {"refused"}
                                [] OTHER -> {})
    /\ UNCHANGED <<host, port, wire, cur, issued, closeCount, lastClose>>

(***************************************************************************)
(* send_request, lines 31-44: advance the counter, build and encode the    *)
(* request, sock.send.  sendOk tells whether send on a connected socket    *)
(* returns or raises (it can raise once the peer has closed).              *)
(***************************************************************************)
\* mutant: the counter skips an id
MutNextRequestId == request_id + 2

\* mutant: a call on a connection the peer has closed, which cannot succeed,
\* does not consume an id
MutNextRequestIdKept == IF peerClosed THEN request_id ELSE request_id + 1

NextRequestId == request_id + 1

\* sock.send raises on a socket that is closed or was never connected
SendRaises(st) == st \in {"closed", "unconnected"}

\* a reply with an error member and no result member
IsErrorReply(resp) == "error" \in resp.keys /\ "result" \notin resp.keys

\* mutant: the exception of send is swallowed and the call goes on to recv
MutSendFailed(started) == [started EXCEPT !.phase = "sent"]

\* line 44 raising: the exception leaves send_request
SendFailed(started) == [started EXCEPT !.phase = "done", !.outcome = "OSError"]

SendRequestWrite(method, params, sendOk) ==
    LET id == NextRequestId
        request == BuildRequest(id, method, params)
        started == [phase |-> "started", id |-> request.id, method |-> request.method,
                    writes |-> 0, reads |-> 0, outcome |-> "", resp |-> NoResponse,
                    ctr0 |-> request_id, st0 |-> sockState, peer0 |-> peerClosed,
                    prevErr |-> cur.outcome = "returned" /\ IsErrorReply(cur.resp)]
    IN  /\ request_id' = id
        /\ issued' = Append(issued, request.id)
        /\ CASE sockState = "absent" ->
                  \* self.sock does not exist
                  /\ cur' = [started EXCEPT !.phase = "done", !.outcome = "AttributeError"]
                  /\ wire' = wire
             [] SendRaises(sockState) ->
                  /\ cur' = SendFailed(started)
                  /\ wire' = wire
             [] OTHER ->
                  IF sendOk
                  THEN /\ wire' = Append(wire, [conn |-> sock, data |-> EncodeRequest(request)])
                       /\ cur' = [started EXCEPT !.phase = "sent", !.writes = @ + 1]
                  ELSE /\ peerClosed
                       /\ cur' = SendFailed(started)
                       /\ wire' = wire
        /\ UNCHANGED <<host, port, sock, sockState, inbuf, peerClosed, stdout, closeCount,
                       lastClose, lastConnect>>

(***************************************************************************)
(* send_request, lines 47-53: one sock.recv(4096), decode, strip,          *)
(* json.loads, return.  k is the number of tokens recv returns (0: the     *)
(* peer closed and recv returns b""); reset: recv raises instead.          *)
(***************************************************************************)
RecvLengths ==
    IF inbuf # <<>> THEN 1..Min(Len(inbuf), RecvBufSize)
    ELSE IF peerClosed THEN {0} ELSE {}

\* mutant: no data is taken for an empty reply
MutDecodedEmpty(data) ==
    LET text == Strip(data)
    IN  IF IsJsonText(text)
        THEN [outcome |-> "returned", resp |-> Loads(text)]
        ELSE IF text = <<>>
        THEN [outcome |-> "returned", resp |-> NoResponse]
        ELSE [outcome |-> "JSONDecodeError", resp |-> NoResponse]

\* mutant: a reply with an error member is raised as an exception
MutDecodedRaising(data) ==
    LET text == Strip(data)
    IN  IF IsJsonText(text) /\ ~IsErrorReply(Loads(text))
        THEN [outcome |-> "returned", resp |-> Loads(text)]
        ELSE IF IsJsonText(text)
        THEN [outcome |-> "RuntimeError", resp |-> NoResponse]
        ELSE [outcome |-> "JSONDecodeError", resp |-> NoResponse]

\* mutant: a tolerant parser closes an object that was cut off
MutDecodedLenient(data) ==
    LET text == Strip(data)
    IN  IF IsJsonText(text)
        THEN [outcome |-> "returned", resp |-> Loads(text)]
        ELSE IF IsJsonText(text \o <<RBrace>>)
        THEN [outcome |-> "returned", resp |-> Loads(text \o <<RBrace>>)]
        ELSE [outcome |-> "JSONDecodeError", resp |-> NoResponse]

Decoded(data) ==
    LET text == Strip(data)
    IN  IF IsJsonText(text)
        THEN [outcome |-> "returned", resp |-> Loads(text)]
        ELSE [outcome |-> "JSONDecodeError", resp |-> NoResponse]

\* mutant: a reply that cannot be decoded makes the client close its socket
MutSockStateAfterRecv(outcome) ==
    IF outcome = "JSONDecodeError" THEN "closed" ELSE sockState

\* lines 47-53 do not assign or close self.sock, whether they return or raise
SockStateAfterRecv(outcome) == sockState

SendRequestRead(k, reset) ==
    /\ cur.phase = "sent"
    /\ IF reset
       THEN /\ peerClosed /\ inbuf = <<>>
            /\ cur' = [cur EXCEPT !.phase = "done", !.outcome = "OSError"]
            /\ inbuf' = inbuf
       ELSE /\ k \in RecvLengths
            /\ LET response_data == SubSeq(inbuf, 1, k)
                   d == Decoded(response_data)
               IN  /\ inbuf' = SubSeq(inbuf, k + 1, Len(inbuf))
                   /\ cur' = [cur EXCEPT !.phase = "done", !.reads = @ + 1,
                                         !.outcome = d.outcome, !.resp = d.resp]
    /\ sockState' = SockStateAfterRecv(cur'.outcome)
    /\ UNCHANGED <<host, port, request_id, sock, wire, peerClosed, issued, stdout,
                   closeCount, lastClose, lastConnect>>

(***************************************************************************)
(* The convenience wrappers, lines 55-74.                                  *)
(***************************************************************************)
ListTools(sendOk) == SendRequestWrite("tools/list", "None", sendOk)

AskQuestion(sendOk) ==
    SendRequestWrite("council/ask", "{question,wait_for_consensus}", sendOk)

GetSession(sendOk) == SendRequestWrite("council/get_session", "{session_id}", sendOk)

ListSessions(sendOk) == SendRequestWrite("council/list_sessions", "None", sendOk)

(***************************************************************************)
(* close(), lines 76-79.                                                   *)
(***************************************************************************)
Close ==
    /\ IF sockState = "absent"
       THEN /\ lastClose' = "AttributeError"
            /\ UNCHANGED <<sockState, stdout, closeCount>>
       ELSE /\ sockState' = "closed"
            /\ stdout' = stdout \cup {"closed"}
            /\ closeCount' = closeCount + 1
            /\ lastClose' = "ok"
    /\ UNCHANGED <<host, port, request_id, sock, wire, inbuf, peerClosed, cur, issued, lastConnect>>

(***************************************************************************)
(* The peer of the socket.  The client looks at the stream only in recv,   *)
(* so what the peer sends is added while a recv is pending; whatever one   *)
(* recv leaves unread is still there for the next.                         *)
(***************************************************************************)
ServerSend(msg) ==
    /\ sockState = "connected"
    /\ ~peerClosed
    /\ cur.phase = "sent"
    /\ Len(inbuf) + Len(msg) <= MaxInbuf
    /\ inbuf' = inbuf \o msg
    /\ UNCHANGED <<host, port, request_id, sock, sockState, wire, peerClosed, cur, issued, stdout,
                   closeCount, lastClose, lastConnect>>
    /\ UNCHANGED callerVars

ServerClose ==
    /\ sockState = "connected"
    /\ ~peerClosed
    /\ peerClosed' = TRUE
    /\ UNCHANGED <<host, port, request_id, sock, sockState, wire, inbuf, cur, issued, stdout,
                   closeCount, lastClose, lastConnect>>
    /\ UNCHANGED callerVars

\* the id the peer reads in the request written last
LastRequestId == Loads(Strip(wire[Len(wire)].data)).id

(***************************************************************************)
(* A free caller: any sequence of connect, calls and close on one client,  *)
(* one operation at a time (the caller is blocked while recv blocks).      *)
(* An exception of an operation is caught by the caller, which goes on;    *)
(* sys.exit(1) ends the process.                                           *)
(***************************************************************************)
ApiReady == pc = "api" /\ cur.phase # "sent"

ApiConnect ==
    /\ ApiReady
    /\ sock < MaxConnects
    /\ \E outcome \in ConnectOutcomes :
          /\ Connect(outcome)
          /\ pc' = IF SysExit(outcome) THEN "exited" ELSE pc
          /\ exitStatus' = IF SysExit(outcome) THEN "1" ELSE exitStatus
    /\ UNCHANGED <<session_id, caught>>

\* a direct send_request call: the params of a free caller may be None or empty
DirectMethods == {"tools/list"}
DirectParams == {"None", "{}"}

ApiSendRequest ==
    /\ ApiReady
    /\ request_id < MaxCalls
    /\ \E method \in DirectMethods, params \in DirectParams, sendOk \in BOOLEAN :
          SendRequestWrite(method, params, sendOk)
    /\ UNCHANGED callerVars

ApiListTools ==
    /\ ApiReady
    /\ request_id < MaxCalls
    /\ \E sendOk \in BOOLEAN : ListTools(sendOk)
    /\ UNCHANGED callerVars

ApiAskQuestion ==
    /\ ApiReady
    /\ request_id < MaxCalls
    /\ \E sendOk \in BOOLEAN : AskQuestion(sendOk)
    /\ UNCHANGED callerVars

ApiGetSession ==
    /\ ApiReady
    /\ request_id < MaxCalls
    /\ \E sendOk \in BOOLEAN : GetSession(sendOk)
    /\ UNCHANGED callerVars

ApiListSessions ==
    /\ ApiReady
    /\ request_id < MaxCalls
    /\ \E sendOk \in BOOLEAN : ListSessions(sendOk)
    /\ UNCHANGED callerVars

ApiRecv ==
    /\ pc = "api"
    /\ \E k \in 0..MaxInbuf, reset \in BOOLEAN : SendRequestRead(k, reset)
    /\ UNCHANGED callerVars

ApiClose ==
    /\ ApiReady
    /\ closeCount < MaxCloses
    /\ Close
    /\ UNCHANGED callerVars

\* the peer of a free caller answers the pending request with a result or an error
ApiBodies == {"ask", "error"}

PeerSend ==
    \E body \in ApiBodies : ServerSend(EncodeReply(TRUE, LastRequestId, body))

PeerClose == ServerClose

Init == ClientInit /\ pc = "api"

Next ==
    \/ ApiConnect
    \/ ApiSendRequest
    \/ ApiListTools
    \/ ApiAskQuestion
    \/ ApiGetSession
    \/ ApiListSessions
    \/ ApiRecv
    \/ ApiClose
    \/ PeerSend
    \/ PeerClose

Spec == Init /\ [][Next]_vars

(***************************************************************************)
(* The free caller against a conformant peer and an orderly transport: the *)
(* peer answers each request once, under the id it read in the request,    *)
(* and recv returns exactly that one whole reply.                          *)
(***************************************************************************)
ConformantReply ==
    /\ inbuf = <<>>
    /\ \E body \in ApiBodies : ServerSend(EncodeReply(TRUE, LastRequestId, body))

WholeRecv ==
    /\ pc = "api"
    /\ inbuf # <<>>
    /\ SendRequestRead(Len(inbuf), FALSE)
    /\ UNCHANGED callerVars

ConformantNext ==
    \/ ApiConnect
    \/ ApiSendRequest
    \/ ApiListTools
    \/ ApiAskQuestion
    \/ ApiGetSession
    \/ ApiListSessions
    \/ ApiClose
    \/ ConformantReply
    \/ WholeRecv

ConformantSpec == Init /\ [][ConformantNext]_vars

(***************************************************************************)
(* main(), lines 81-154.  pc is the statement main() is at:                *)
(*   start         before client.connect()            (line 86)            *)
(*   list_tools    client.list_tools() and lines 95-98                     *)
(*   ask           client.ask_question() and lines 107-111                 *)
(*   get_session   client.get_session() and lines 120-126                  *)
(*   list_sessions client.list_sessions() and lines 134-146                *)
(*   except        the except clause, lines 148-151                        *)
(*   finally       the finally clause, line 154                            *)
(*   done, exited  main() returned; the process was ended by an exception  *)
(***************************************************************************)
MainSteps == {"list_tools", "ask", "get_session", "list_sessions"}

\* whether the statements that print a returned response raise (KeyError, TypeError)
PrintRaises(step, resp) ==
    /\ "result" \in resp.keys
    /\ CASE step = "list_tools" -> resp.result = "tools_bad"
         [] step = "ask" -> resp.result = "ask_nostatus"
         [] step = "get_session" -> resp.result # "session"
         [] OTHER -> resp.result # "sessions"

\* lines 107-109: session_id after the council/ask response
SessionIdFrom(resp) ==
    IF "result" \in resp.keys /\ resp.result \in {"ask", "ask_nostatus"} THEN "s1"
    ELSE IF "result" \in resp.keys /\ resp.result = "ask_emptysid" THEN ""
    ELSE "None"

\* mutant: the test is  session_id is not None
MutSessionIdTruthy(sid) == sid \notin {"None", "unset"}

\* line 114: if session_id
SessionIdTruthy(sid) == sid \notin {"None", "", "unset"}

\* the step of main() that calls a method
StepOf(method) ==
    CASE method = "tools/list" -> "list_tools"
      [] method = "council/ask" -> "ask"
      [] method = "council/get_session" -> "get_session"
      [] OTHER -> "list_sessions"

StepAfter(step, sid) ==
    CASE step = "list_tools" -> "ask"
      [] step = "ask" -> IF SessionIdTruthy(sid) THEN "get_session" ELSE "list_sessions"
      [] step = "get_session" -> "list_sessions"
      [] OTHER -> "finally"

\* mutant: the exception of a step is swallowed and main() goes on to the listing
MutAfterRaise == "list_sessions"

\* an exception inside the try block is handled by the except clause
AfterRaise == "except"

\* mutant: no finally clause, main() returns from the except clause
MutAfterExcept == "done"

\* the finally clause follows the except clause
AfterExcept == "finally"

\* client.connect() is outside the try block: SystemExit and any other
\* exception of it end the process with status 1
MainConnect ==
    /\ pc = "start"
    /\ \E outcome \in ConnectOutcomes :
          /\ Connect(outcome)
          /\ pc' = IF SysExit(outcome) \/ outcome = "error" THEN "exited" ELSE "list_tools"
          /\ exitStatus' = IF SysExit(outcome) \/ outcome = "error" THEN "1" ELSE exitStatus
    /\ UNCHANGED <<session_id, caught>>

\* after the call of a step, up to and including sock.send: main() waits in recv,
\* or the call has raised
MainAfterCall ==
    /\ pc' = IF cur'.phase = "sent" THEN pc ELSE AfterRaise
    /\ UNCHANGED <<session_id, exitStatus, caught>>

MainListTools ==
    /\ pc = "list_tools"
    /\ cur.phase # "sent"
    /\ \E sendOk \in BOOLEAN : ListTools(sendOk)
    /\ MainAfterCall

MainAskQuestion ==
    /\ pc = "ask"
    /\ cur.phase # "sent"
    /\ \E sendOk \in BOOLEAN : AskQuestion(sendOk)
    /\ MainAfterCall

MainGetSession ==
    /\ pc = "get_session"
    /\ cur.phase # "sent"
    /\ \E sendOk \in BOOLEAN : GetSession(sendOk)
    /\ MainAfterCall

MainListSessions ==
    /\ pc = "list_sessions"
    /\ cur.phase # "sent"
    /\ \E sendOk \in BOOLEAN : ListSessions(sendOk)
    /\ MainAfterCall

\* the rest of the call (recv, decode, return) and the statements after it
MainRecv ==
    /\ pc \in MainSteps
    /\ \E k \in 0..MaxInbuf, reset \in BOOLEAN : SendRequestRead(k, reset)
    /\ LET returned == cur'.outcome = "returned"
           raises == ~returned \/ PrintRaises(pc, cur'.resp)
           sid == IF pc = "ask" /\ returned THEN SessionIdFrom(cur'.resp) ELSE session_id
       IN  /\ session_id' = sid
           /\ pc' = IF raises THEN AfterRaise ELSE StepAfter(pc, sid)
    /\ UNCHANGED <<exitStatus, caught>>

MainExcept ==
    /\ pc = "except"
    /\ caught' = caught + 1
    /\ stdout' = stdout \cup {"error"}
    /\ pc' = AfterExcept
    /\ UNCHANGED <<host, port, request_id, sock, sockState, wire, inbuf, peerClosed, cur, issued,
                   session_id, exitStatus, closeCount, lastClose, lastConnect>>

MainFinally ==
    /\ pc = "finally"
    /\ Close
    /\ pc' = "done"
    /\ exitStatus' = "0"
    /\ UNCHANGED <<session_id, caught>>

\* the peer of the demo may answer anything, under any id or none
MainCalls == 4
MainReplyIds == 0..MainCalls

MainPeerSend ==
    /\ pc \in MainSteps
    /\ \E hasJsonrpc \in BOOLEAN, id \in MainReplyIds, body \in Bodies :
          ServerSend(EncodeReply(hasJsonrpc, id, body))

MainPeerClose == pc \in MainSteps /\ ServerClose

MainInit == ClientInit /\ pc = "start"

MainNext ==
    \/ MainConnect
    \/ MainListTools
    \/ MainAskQuestion
    \/ MainGetSession
    \/ MainListSessions
    \/ MainRecv
    \/ MainExcept
    \/ MainFinally
    \/ MainPeerSend
    \/ MainPeerClose

\* main() runs on when it can; a pending recv ends once the peer has sent or closed
MainSpec == MainInit /\ [][MainNext]_vars /\ WF_vars(MainNext)

(***************************************************************************)
(* Claims.                                                                 *)
(***************************************************************************)

\* C1: the id placed in the k-th request built on one client is exactly k:
\* ids start at 1, grow by 1, are never reused and leave no gap, through
\* connect and close and whether or not the request reaches the wire.
C1_KthRequestHasIdK ==
    /\ \A k \in 1..Len(issued) : issued[k] = k
    /\ \A i \in 1..Len(wire) : Loads(Strip(wire[i].data)).id \in 1..Len(issued)
    /\ \A i, j \in 1..Len(wire) :
          i < j => Loads(Strip(wire[i].data)).id < Loads(Strip(wire[j].data)).id

\* two calls were made, on two different connections, and both reached the wire
C1_Witness ==
    /\ Len(issued) = 2
    /\ Len(wire) = 2
    /\ wire[1].conn # wire[2].conn

\* C2: a call made while the client is not Connected (before connect(), after
\* close()) fails with a StateError, writes nothing, reads nothing and leaves
\* the id counter as it was.
C2_CallOutsideConnectedFailsUnchanged ==
    (cur.phase = "done" /\ cur.st0 \in {"absent", "closed"}) =>
        /\ cur.outcome = "StateError"
        /\ cur.writes = 0
        /\ cur.reads = 0
        /\ request_id = cur.ctr0

\* C3: call() never returns a response whose id differs from the id of the
\* request it sent.
C3_ReturnedIdMatchesRequest ==
    cur.outcome = "returned" => ("id" \in cur.resp.keys /\ cur.resp.id = cur.id)

\* C4: with a peer that answers every request under the request's id and a
\* transport that hands over one whole reply per request, every call that
\* reaches the wire returns, and the response it returns has the id it sent.
C4_ConformantReplyCarriesSentId ==
    (cur.phase = "done" /\ cur.writes = 1) =>
        /\ cur.outcome = "returned"
        /\ cur.reads = 1
        /\ "id" \in cur.resp.keys
        /\ cur.resp.id = cur.id
        /\ cur.id = request_id

\* the second call on a connection has returned the reply to request 2
C4_Witness ==
    /\ cur.outcome = "returned"
    /\ cur.id = 2
    /\ cur.resp.id = 2
    /\ Len(wire) = 2
    /\ wire[1].conn = wire[2].conn

\* C5 as stated: every call on a Connected client performs exactly one write
\* and exactly one read.
C5_ExactlyOneWriteAndOneRead ==
    (cur.phase = "done" /\ cur.st0 = "connected") => (cur.writes = 1 /\ cur.reads = 1)

\* C5 amended: a call performs at most one write and at most one read, the
\* read only after its write has succeeded; a call that returns a response
\* has performed exactly one write and exactly one read, and every write of a
\* call is one request on the wire.
C5_AtMostOneWriteThenOneRead ==
    /\ cur.writes \in {0, 1}
    /\ cur.reads \in {0, 1}
    /\ cur.reads = 1 => cur.writes = 1
    /\ cur.phase = "sent" => (cur.writes = 1 /\ cur.reads = 0)
    /\ cur.outcome = "returned" => (cur.writes = 1 /\ cur.reads = 1)
    /\ cur.writes = 1 =>
          (wire # <<>> /\ Loads(Strip(wire[Len(wire)].data)).id = cur.id)

\* a call on a Connected client ended after its write, without a read
C5_Witness ==
    /\ cur.phase = "done"
    /\ cur.st0 = "connected"
    /\ cur.writes = 1
    /\ cur.reads = 0
    /\ cur.outcome = "OSError"

\* the peer closed the connection before the demo made its first call
ClosedAtOnce == lastConnect = "ok" /\ peerClosed /\ (issued = <<>> \/ (cur.id = 1 /\ cur.peer0))

\* C6 as stated: when the peer accepts and closes at once, the run stops at
\* connect() and list_tools() is never attempted: no request is built or
\* written.
C6_CloseAtOnceStopsAtConnect ==
    ClosedAtOnce => (issued = <<>> /\ wire = <<>>)

\* C6 amended: when the peer accepts and closes at once, connect() succeeds
\* and list_tools() is attempted; that call raises (the write fails, or the
\* read fails or returns nothing to decode), it is the only call of the run,
\* and the demo goes to its except and finally clauses and closes.
C6_CloseAtOnceFailsInListTools ==
    ClosedAtOnce =>
        /\ pc # "exited"
        /\ issued = <<>> => pc = "list_tools"
        /\ issued # <<>> =>
              /\ issued = <<1>>
              /\ cur.method = "tools/list"
              /\ Len(wire) <= 1
              /\ cur.phase = "done" =>
                    /\ cur.outcome \in {"OSError", "JSONDecodeError"}
                    /\ pc \in {"except", "finally", "done"}
              /\ pc = "done" => (caught = 1 /\ closeCount = 1 /\ sockState = "closed")

\* the tools/list request was written to the peer that had closed, the call
\* raised, and the demo has ended
C6_Witness ==
    /\ ClosedAtOnce
    /\ Len(wire) = 1
    /\ cur.outcome = "JSONDecodeError"
    /\ pc = "done"

\* C7: when the connection attempt is refused, the process exits with status
\* 1 after the diagnostic; no request was built or written and the counter
\* is 0.
C7_RefusedExitsWithStatus1 ==
    lastConnect = "refused" =>
        /\ pc = "exited"
        /\ exitStatus = "1"
        /\ "refused" \in stdout
        /\ issued = <<>>
        /\ wire = <<>>
        /\ request_id = 0
        /\ cur.phase = "none"

C7_Witness == lastConnect = "refused" /\ pc = "exited" /\ exitStatus = "1"

ReadByRecv == SubSeq(inbuf, 1, Len(inbuf) - Len(inbuf'))

\* the recv of this step returned one well-formed reply with an error member
\* and no result
ReadsErrorReply ==
    /\ cur.phase = "sent"
    /\ cur'.phase = "done"
    /\ cur'.reads = 1
    /\ IsJsonText(Strip(ReadByRecv))
    /\ IsErrorReply(Loads(Strip(ReadByRecv)))

\* C9: a well-formed reply with an error member and no result is returned by
\* the call as a value and is not raised; the demo goes on to its next step,
\* the client stays connected, and the next call is made on the connection
\* with the next id.
C9_ErrorReplyIsReturned ==
    /\ [][ReadsErrorReply =>
             /\ cur'.outcome = "returned"
             /\ IsErrorReply(cur'.resp)
             /\ pc' = StepAfter(pc, "None")
             /\ caught' = 0
             /\ sockState' = "connected"]_vars
    /\ [](cur.prevErr =>
             /\ cur.id = cur.ctr0 + 1
             /\ cur.st0 = "connected"
             /\ cur.phase = "sent" => caught = 0)

\* the call after an error reply went out under the next id and returned
C9_Witness ==
    /\ cur.prevErr
    /\ cur.id = 2
    /\ cur.outcome = "returned"
    /\ Len(wire) = 2

\* C10: a well-formed reply without the id member or without the jsonrpc
\* member is never returned by call().
C10_ReturnedHasIdAndVersion ==
    cur.outcome = "returned" => {"id", "jsonrpc"} \subseteq cur.resp.keys

\* the id of the request in the i-th entry of the wire
WireId(i) == Loads(Strip(wire[i].data)).id

\* C11: a new connection resets the id counter: the first request written on
\* a connection made by a later connect() of the same client has id 1.
C11_FirstIdOfNewConnectionIs1 ==
    \A i \in 2..Len(wire) : wire[i - 1].conn # wire[i].conn => WireId(i) = 1

\* a step of send_request: the invocation record changes in those steps only
CallStep == cur' # cur

\* C12: a call changes no client state other than the id counter: host, port
\* and the socket held by the client (which object, and its state) are the
\* same before and after every step of send_request, returning or raising.
C12_CallChangesOnlyTheCounter ==
    [][CallStep => /\ host' = host
                   /\ port' = port
                   /\ sock' = sock
                   /\ sockState' = sockState
                   /\ closeCount' = closeCount
                   /\ request_id' \in {request_id, request_id + 1}]_vars

\* a call on a connected client raised on an undecodable reply after another
\* call had been made; the socket is still the connected one
C12_Witness ==
    /\ cur.phase = "done" /\ cur.outcome = "JSONDecodeError" /\ cur.id = 2
    /\ sockState = "connected" /\ sock = 1
    /\ host = "localhost" /\ port = 9001

\* C13: close() succeeds in every client state: never connected, Connected,
\* already Closed.  No close() call ends in an exception.
C13_CloseSucceedsInEveryState == lastClose \in {"none", "ok"}

\* the method of the request in the i-th entry of the wire
WireMethod(i) == LastMember(Strip(wire[i].data), "method").s

WireMethods == [i \in 1..Len(wire) |-> WireMethod(i)]

IsPrefix(s, t) == Len(s) <= Len(t) /\ s = SubSeq(t, 1, Len(s))

\* the requests of a demo run that asks for the session, and of one that skips it
LongRun == <<"tools/list", "council/ask", "council/get_session", "council/list_sessions">>
ShortRun == <<"tools/list", "council/ask", "council/list_sessions">>

GetSessionSent == \E i \in 1..Len(wire) : WireMethod(i) = "council/get_session"

\* the demo has ended and its last call returned, so no call of it raised
\* (a call that raises is the last call of the run)
RunOverNoCallRaised == pc = "done" /\ cur.outcome = "returned"

\* C14 as stated: in a demo run in which no call raises, council/get_session
\* is sent if and only if the council/ask reply gave a non-empty session_id.
C14_GetSessionIffSessionId ==
    RunOverNoCallRaised => (GetSessionSent <=> session_id = "s1")

\* C14 amended: the requests of a demo run are written in the order
\* tools/list, council/ask, council/get_session, council/list_sessions, or
\* that order without council/get_session, with ids 1, 2, 3, ...;
\* council/get_session is sent only after a council/ask reply with a
\* non-empty session_id and is skipped only after one without; and a run in
\* which nothing raises, neither a call nor the printing of a reply, writes
\* all four requests when the session_id is non-empty and the three others,
\* council/list_sessions with id 3, when it is not.
C14_DemoRequestOrder ==
    /\ \A i \in 1..Len(wire) : WireId(i) = i
    /\ IsPrefix(WireMethods, LongRun) \/ IsPrefix(WireMethods, ShortRun)
    /\ GetSessionSent => session_id = "s1"
    /\ (Len(wire) >= 3 /\ WireMethod(3) = "council/list_sessions")
          => session_id \in {"", "None"}
    /\ (pc = "done" /\ caught = 0)
          => WireMethods = IF session_id = "s1" THEN LongRun ELSE ShortRun

\* a run without an exception that skipped council/get_session on an empty
\* session_id and sent council/list_sessions with id 3
C14_Witness ==
    /\ pc = "done" /\ caught = 0 /\ session_id = ""
    /\ WireMethods = ShortRun /\ WireId(3) = 3

\* the last call made has raised
CallRaised == cur.phase = "done" /\ cur.outcome # "returned"

\* C15: once a call of the demo has raised (write failure, read failure or
\* undecodable reply), main() is in its except or finally clause or has
\* returned; no further request is built or written, nothing more is read,
\* and the only thing still done to the socket is the one close().
C15_RaiseIsConnectionFatal ==
    /\ [](CallRaised => pc \in {"except", "finally", "done"})
    /\ [][CallRaised =>
             /\ wire' = wire /\ issued' = issued /\ request_id' = request_id
             /\ cur' = cur /\ inbuf' = inbuf /\ sock' = sock
             /\ sockState' # sockState =>
                   (sockState' = "closed" /\ closeCount' = closeCount + 1)]_vars

\* the second call of the demo raised in its read, after its request was
\* written, and the run ended with the one close()
C15_Witness ==
    /\ CallRaised /\ cur.id = 2 /\ cur.writes = 1 /\ Len(wire) = 2
    /\ pc = "done" /\ closeCount = 1 /\ sockState = "closed"

\* s is exactly one reply line: one JSON object and its newline
ReplyLine(s) == s # <<>> /\ s[Len(s)] = NL /\ IsJsonText(SubSeq(s, 1, Len(s) - 1))

\* a recv of a call returns a proper part of the one reply line in the stream
SplitRead ==
    /\ cur.phase = "sent" /\ cur'.phase = "done" /\ cur'.reads = 1
    /\ ReplyLine(inbuf)
    /\ Len(ReadByRecv) < Len(inbuf)

\* C16 as stated: when one reply is split across two reads, the call that
\* performs the first read fails with a format error.
C16_SplitReadFailsWithFormatError ==
    [][SplitRead => cur'.outcome = "JSONDecodeError"]_vars

\* C16 amended: a call decodes exactly what its one recv returned.  When the
\* recv returns a proper part of the one reply line in the stream, the call
\* does not wait for the rest: it raises JSONDecodeError, unless only the
\* newline is missing, in which case it returns the reply.  The rest of the
\* line stays in the stream, and bytes leave the stream only through the
\* recv of a call, which takes them from its front, or with the connection.
C16_SplitReadDecodesItsPart ==
    /\ [][SplitRead =>
             /\ inbuf = ReadByRecv \o inbuf' /\ inbuf' # <<>>
             /\ IF Len(ReadByRecv) = Len(inbuf) - 1
                THEN /\ cur'.outcome = "returned"
                     /\ cur'.resp = Loads(Strip(inbuf))
                ELSE cur'.outcome = "JSONDecodeError"]_vars
    /\ [][Len(inbuf') < Len(inbuf) =>
             \/ /\ cur.phase = "sent" /\ cur'.phase = "done" /\ cur'.reads = 1
                /\ inbuf = ReadByRecv \o inbuf'
             \/ sock' # sock /\ inbuf' = <<>>]_vars

\* the second call on a connection whose peer is still there read bytes that
\* are not a reply: what the read of the first call had left in the stream
C16_Witness ==
    /\ cur.id = 2 /\ cur.reads = 1 /\ cur.outcome = "JSONDecodeError"
    /\ ~peerClosed /\ ~cur.peer0
    /\ Len(wire) = 2 /\ wire[1].conn = wire[2].conn

\* the members of the request in the i-th entry of the wire
WireKeys(i) == Loads(Strip(wire[i].data)).keys

WireParams(i) == LastMember(Strip(wire[i].data), "params").s

\* the line of a request with the given id and method, and with the given
\* params member or ("absent") without one
RequestLine(id, method, params) ==
    <<LBrace, Tok("jsonrpc", 0, "2.0"), Tok("id", id, ""), Tok("method", 0, method)>>
    \o (IF params = "absent" THEN <<>> ELSE <<Tok("params", 0, params)>>)
    \o <<RBrace, NL>>

\* this step starts exactly one send_request, for the given method, and what
\* it writes, if it gets to write, is the one line of that request
Forwards(method, params) ==
    /\ issued' = Append(issued, request_id + 1)
    /\ cur'.method = method /\ cur'.id = request_id + 1
    /\ \/ wire' = wire
       \/ wire' = Append(wire, [conn |-> sock,
                                data |-> RequestLine(request_id + 1, method, params)])

\* C17: each convenience operation forwards to exactly one send_request with
\* a fixed method: list_tools sends tools/list and list_sessions sends
\* council/list_sessions, both without a params member; ask_question sends
\* council/ask with params {question, wait_for_consensus}; get_session sends
\* council/get_session with params {session_id}.  A request has a params
\* member exactly when the params passed are non-empty: a direct call with
\* None or {} writes none, and no request on the wire has empty params.
C17_WrappersForwardOneCall ==
    /\ [][/\ ApiListTools => Forwards("tools/list", "absent")
          /\ ApiListSessions => Forwards("council/list_sessions", "absent")
          /\ ApiAskQuestion => Forwards("council/ask", "{question,wait_for_consensus}")
          /\ ApiGetSession => Forwards("council/get_session", "{session_id}")
          /\ ApiSendRequest => \E method \in DirectMethods : Forwards(method, "absent")]_vars
    /\ [](\A i \in 1..Len(wire) :
            /\ {"jsonrpc", "id", "method"} \subseteq WireKeys(i)
            /\ "params" \in WireKeys(i) =>
                  /\ WireParams(i) \in ParamValues \ {"None", "{}"}
                  /\ WireMethod(i) \in {"council/ask", "council/get_session"}
            /\ WireMethod(i) \in {"council/ask", "council/get_session"} =>
                  "params" \in WireKeys(i))

\* council/get_session and council/ask were written, each with its params
C17_Witness ==
    /\ Len(wire) = 2
    /\ wire[1].data = RequestLine(1, "council/get_session", "{session_id}")
    /\ wire[2].data = RequestLine(2, "council/ask", "{question,wait_for_consensus}")

\* C18: the counter is advanced before any I/O, so a call that fails in its
\* write, read or decode still consumes its id: the counter equals the number
\* of calls started, the id of a call is one more than the counter it found,
\* however the call ended, and no two requests written on one connection
\* carry the same id.
C18_FailedCallConsumesItsId ==
    /\ request_id = Len(issued)
    /\ cur.phase # "none" => (cur.id = cur.ctr0 + 1 /\ request_id = cur.id)
    /\ \A i, j \in 1..Len(wire) :
          (i # j /\ wire[i].conn = wire[j].conn) => WireId(i) # WireId(j)

\* on a connected client the first request was written, then the second call
\* failed in its write and the counter stands at 2
C18_Witness ==
    /\ Len(wire) = 1 /\ WireId(1) = 1
    /\ cur.id = 2 /\ cur.st0 = "connected" /\ cur.writes = 0 /\ cur.outcome = "OSError"
    /\ request_id = 2

====
